---- MODULE Spec2Model ----
(***************************************************************************)
(* Model of clickhouse.cpp: a command-line program that reads lines of     *)
(* (URL, long) records and reports either the top ResultCount records      *)
(* (normal mode, batched sort-and-trim) or a reservoir sample of           *)
(* ResultCount records (random mode, Algorithm R) with a histogram of      *)
(* the retained arrival positions.                                         *)
(***************************************************************************)
EXTENDS Integers, Sequences, FiniteSets, TLC

\* ---------------------------------------------------------------- bounds
MaxLen    == 4      \* longest input file, in lines
MaxK      == 3      \* largest -n value tried
MaxBatch  == 3      \* largest -b value tried
MaxBucket == 3      \* largest -u value tried
Scores    == {1, 5, 9}

\* smaller inputs for the specification with fairness
LiveMaxLen == 3     \* longest input file
LiveMaxOpt == 2     \* largest -n, -b and -u value tried
LiveScores == {1, 5}

\* ------------------------------------------------------ program constants
SELECTION_TYPE_NORMAL == 0
SELECTION_TYPE_RANDOM == 1
SORT_TYPE_DESCENDING  == 0
SORT_TYPE_ASCENDING   == 1
DefaultBatchSize      == 1000
DefaultResultCount    == 10
DefaultBucketCount    == 4

VARIABLES
    pc,             \* position of main / GenerateAlgorithmR
    outcome,        \* how the process ended ("none" while running)
    argv,           \* the command line, without the program name
    InputFileName,  \* TRUE once -i named a file
    BatchSize, ResultCount, SelectionType, ResultSortType, BucketCount,
    stream,         \* the lines of the opened input file
    filePos,        \* number of lines consumed by getline
    DataVector,     \* normal mode: the candidate vector
    BatchLinesRead, TotalLinesRead, BatchesRead,
    Reservoir,      \* random mode: slot index -> SAMPLE_ITEM
    ReservoirIndex, ReservoirSize, SampleIndex, RandomValue, ReplacedCount,
    Buckets,        \* histogram: sequence of BUCKET
    NotFound,       \* reservoir indices reported "Could not find bucket"
    Printed,        \* the records written by PrintVectorData at the end
    freed           \* ids of the DATA_ITEMs passed to free()

vars == << pc, outcome, argv, InputFileName, BatchSize, ResultCount,
           SelectionType, ResultSortType, BucketCount, stream, filePos,
           DataVector, BatchLinesRead, TotalLinesRead, BatchesRead,
           Reservoir, ReservoirIndex, ReservoirSize, SampleIndex,
           RandomValue, ReplacedCount, Buckets, NotFound, Printed, freed >>

globals == << InputFileName, BatchSize, ResultCount, SelectionType,
              ResultSortType, BucketCount >>
normalVars == << DataVector, BatchLinesRead, TotalLinesRead, BatchesRead >>
randomVars == << Reservoir, ReservoirIndex, ReservoirSize, SampleIndex,
                 RandomValue, ReplacedCount, Buckets, NotFound >>

\* ------------------------------------------------------------ data types
\* DATA_ITEM: id stands for the heap object (and its URL), one per line read
NullItem   == [id |-> -1, LongValue |-> 0]
NullSample == [DataItem |-> NullItem, SampleIndex |-> -1]

\* a line of the input file: url = first column contains "http",
\* val = the long in the second column
GoodLine(v) == [url |-> TRUE, val |-> v]
BadLine     == [url |-> FALSE, val |-> 0]
LinesOf(scores)       == {GoodLine(v) : v \in scores} \cup {BadLine}
StreamsOf(scores, len) == UNION {[1..n -> LinesOf(scores)] : n \in 0..len}
Lines       == LinesOf(Scores)
Streams     == StreamsOf(Scores, MaxLen)
LiveStreams == StreamsOf(LiveScores, LiveMaxLen)

\* command-line tokens
Flag(c) == [kind |-> "flag", ch |-> c, num |-> 0]
Num(n)  == [kind |-> "num", ch |-> "", num |-> n]
File    == [kind |-> "word", ch |-> "", num |-> 0]

\* argv[arg][0] == '-'
StartsWithDash(t) == t.kind = "flag" \/ (t.kind = "num" /\ t.num < 0)
\* argv[arg][1]
OptionChar(t) == IF t.kind = "flag" THEN t.ch ELSE "digit"
\* atol / atoi of a token: text that is not a number converts to 0
atol(t) == IF t.kind = "num" THEN t.num ELSE 0

\* ------------------------------------------------------------- ParseArgs
\* value checks of the individual options
InvalidResultCount_Mut(n) == n < 0
InvalidResultCount(n)   == n <= 0
InvalidBatchSize(n)     == n <= 0
InvalidSelectionType(n) == n < 0 \/ n > 1
InvalidSortType(n)      == n < 0 \/ n > 1
InvalidBucketCount(n)   == n < 0

\* the globals as they stand before ParseArgs runs
DefaultGlobals ==
    [ InputFileName  |-> FALSE,
      BatchSize      |-> DefaultBatchSize,
      SelectionType  |-> SELECTION_TYPE_NORMAL,
      ResultCount    |-> DefaultResultCount,
      ResultSortType |-> SORT_TYPE_DESCENDING,
      BucketCount    |-> DefaultBucketCount,
      Status         |-> "parsing" ]

\* (arg + 1) < argc
HasValue(a, arg) == arg + 1 <= Len(a)

\* an option that takes a value: assign it, then check it
SetOption(g, field, v, bad) ==
    [g EXCEPT ![field] = v, !.Status = IF bad THEN "invalid" ELSE @]

\* the switch on argv[arg][1]
ParseOption(a, arg, g) ==
    LET c == OptionChar(a[arg])
        v == atol(a[arg + 1])
    IN  IF c \in {"i", "n", "b", "m", "s", "u"} /\ ~HasValue(a, arg)
        THEN [g EXCEPT !.Status = "missing"]
        ELSE CASE c = "i" -> [g EXCEPT !.InputFileName = TRUE]
               [] c = "n" -> SetOption(g, "ResultCount", v, InvalidResultCount(v))
               [] c = "b" -> SetOption(g, "BatchSize", v, InvalidBatchSize(v))
               [] c = "m" -> SetOption(g, "SelectionType", v, InvalidSelectionType(v))
               [] c = "s" -> SetOption(g, "ResultSortType", v, InvalidSortType(v))
               [] c = "u" -> SetOption(g, "BucketCount", v, InvalidBucketCount(v))
               [] OTHER   -> g

\* the for loop over argv[1 .. argc-1]; every token is visited, also the
\* ones that were consumed as a value
RECURSIVE ParseLoop(_, _, _)
ParseLoop(a, arg, g) ==
    IF arg > Len(a) THEN [g EXCEPT !.Status = "ok"]
    ELSE IF ~StartsWithDash(a[arg]) THEN ParseLoop(a, arg + 1, g)
    ELSE LET g2 == ParseOption(a, arg, g)
         IN  IF g2.Status # "parsing" THEN g2 ELSE ParseLoop(a, arg + 1, g2)

ParseArgs(a) ==
    IF Len(a) < 1 THEN [DefaultGlobals EXCEPT !.Status = "noargs"]
    ELSE ParseLoop(a, 1, DefaultGlobals)

\* the command lines tried
Opt(c, vals) == {<< >>} \cup {<< Flag(c), Num(v) >> : v \in vals}
NormalArgvOf(maxK, maxBatch) ==
    { << Flag("i"), File >> \o n \o b \o s :
        n \in Opt("n", 0..maxK), b \in Opt("b", 0..maxBatch), s \in Opt("s", {1}) }
RandomArgvOf(maxK, maxBucket) ==
    { << Flag("m"), Num(1), Flag("i"), File >> \o n \o u :
        n \in Opt("n", 0..maxK), u \in Opt("u", (-1)..maxBucket) }
NormalArgv == NormalArgvOf(MaxK, MaxBatch)
RandomArgv == RandomArgvOf(MaxK, MaxBucket)
OddArgv ==
    { << >>,
      << Flag("n") >>,
      << Flag("n"), Num(2) >>,
      << Flag("n"), Num(-1), Flag("i"), File >>,
      << Flag("b"), Num(-1), Flag("i"), File >>,
      << Flag("n"), Flag("b"), Num(2), Flag("i"), File >>,
      << Flag("i"), Flag("n"), Num(0) >>,
      << Flag("i"), File, Flag("m"), Num(2) >>,
      << Flag("i"), File, Flag("s"), Num(2) >>,
      << Flag("v"), Flag("i"), File, Flag("m"), Num(0), Flag("s"), Num(0) >> }
ArgvSet == NormalArgv \cup RandomArgv \cup OddArgv
LiveArgvSet ==
    NormalArgvOf(LiveMaxOpt, LiveMaxOpt) \cup RandomArgvOf(LiveMaxOpt, LiveMaxOpt)
        \cup {<< >>, << Flag("i"), File, Flag("m"), Num(2) >>, << Flag("n"), Num(2) >>}

\* ------------------------------------------------------- GetNextDataItem
\* a line yields a DATA_ITEM iff its first column is a URL and its second
\* column converts to a long
LineOK_Mut(l) == TRUE
LineOK(l) == l.url

\* reads the line at position p of file f: NULL at end of file, NULL (with
\* the line consumed) for a line that does not parse
GetNextDataItem(f, p) ==
    IF p >= Len(f) THEN [DataItem |-> NullItem, pos |-> p]
    ELSE IF ~LineOK(f[p + 1]) THEN [DataItem |-> NullItem, pos |-> p + 1]
    ELSE [DataItem |-> [id |-> p, LongValue |-> f[p + 1].val], pos |-> p + 1]

\* ----------------------------------------------------------- comparators
CompareAscending(Item1, Item2)  == Item1.LongValue < Item2.LongValue
CompareDescending_Mut(Item1, Item2) == Item1.LongValue < Item2.LongValue
CompareDescending(Item1, Item2) == Item1.LongValue > Item2.LongValue

\* CompareFunction, chosen from ResultSortType
CompareFunction(sortType, Item1, Item2) ==
    IF sortType = SORT_TYPE_DESCENDING
    THEN CompareDescending(Item1, Item2)
    ELSE CompareAscending(Item1, Item2)

Range(q) == {q[i] : i \in DOMAIN q}
Min(a, b) == IF a < b THEN a ELSE b

\* std::sort is not stable: every arrangement in which no element is
\* preceded by one the comparator puts after it is a possible result
RECURSIVE SortResults(_, _)
SortResults(S, sortType) ==
    IF S = {} THEN {<< >>}
    ELSE UNION { { << x >> \o t : t \in SortResults(S \ {x}, sortType) } :
                 x \in { y \in S : \A z \in S : ~CompareFunction(sortType, z, y) } }

\* --------------------------------------------------------------- Init
Init ==
    /\ pc = "main"
    /\ outcome = "none"
    /\ argv = << >>
    /\ InputFileName = DefaultGlobals.InputFileName
    /\ BatchSize = DefaultGlobals.BatchSize
    /\ ResultCount = DefaultGlobals.ResultCount
    /\ SelectionType = DefaultGlobals.SelectionType
    /\ ResultSortType = DefaultGlobals.ResultSortType
    /\ BucketCount = DefaultGlobals.BucketCount
    /\ stream = << >>
    /\ filePos = 0
    /\ DataVector = << >>
    /\ BatchLinesRead = 0
    /\ TotalLinesRead = 0
    /\ BatchesRead = 0
    /\ Reservoir = << >>
    /\ ReservoirIndex = 0
    /\ ReservoirSize = 0
    /\ SampleIndex = 0
    /\ RandomValue = -1
    /\ ReplacedCount = 0
    /\ Buckets = << >>
    /\ NotFound = {}
    /\ Printed = << >>
    /\ freed = {}

\* ------------------------------------------------------------- main
\* main: ParseArgs, then the check that an input file was named
ParseCommandLineFrom(args) ==
    /\ pc = "main"
    /\ \E a \in args :
         LET g == ParseArgs(a)
         IN  /\ argv' = a
             /\ InputFileName' = g.InputFileName
             /\ BatchSize' = g.BatchSize
             /\ ResultCount' = g.ResultCount
             /\ SelectionType' = g.SelectionType
             /\ ResultSortType' = g.ResultSortType
             /\ BucketCount' = g.BucketCount
             /\ IF g.Status # "ok"
                THEN pc' = "exit" /\ outcome' = "usage"
                ELSE IF ~g.InputFileName
                THEN pc' = "exit" /\ outcome' = "noinput"
                ELSE pc' = "open" /\ outcome' = outcome
    /\ UNCHANGED << stream, filePos, normalVars, randomVars, Printed, freed >>

ParseCommandLine == ParseCommandLineFrom(ArgvSet)

\* main: fopen of the input file succeeds; GenerateAlgorithmR allocates
\* the reservoir when the selection type is random
OpenInputFrom(files) ==
    /\ pc = "open"
    /\ \E f \in files : stream' = f
    /\ IF SelectionType = SELECTION_TYPE_RANDOM
       THEN /\ pc' = "fill"
            /\ Reservoir' = [i \in 0..(ResultCount - 1) |-> NullSample]
       ELSE /\ pc' = "batch"
            /\ Reservoir' = Reservoir
    /\ UNCHANGED << outcome, argv, globals, filePos, normalVars,
                    ReservoirIndex, ReservoirSize, SampleIndex, RandomValue,
                    ReplacedCount, Buckets, NotFound, Printed, freed >>

OpenInput == OpenInputFrom(Streams)

\* main: fopen fails
OpenFails ==
    /\ pc = "open"
    /\ pc' = "exit"
    /\ outcome' = "openfail"
    /\ UNCHANGED << argv, globals, stream, filePos, normalVars, randomVars,
                    Printed, freed >>

\* --------------------------------------------------- normal mode (main)
IdsOf(q) == {q[i].id : i \in DOMAIN q}

\* the effective result count after the size check that precedes a trim
NewResultCount_Mut(size, rc) == size
NewResultCount(size, rc) == IF size < rc THEN size ELSE rc

\* the trim loop pops from the tail until rc elements are left
Trim_Mut(v, rc) == SubSeq(v, 1, Min(rc + 1, Len(v)))
Trim(v, rc) == SubSeq(v, 1, rc)

\* one pass of the inner while loop: pull a record, append it, stop the
\* batch when it is full or when the pull returned NULL
ReadLine ==
    /\ pc = "batch"
    /\ LET r == GetNextDataItem(stream, filePos)
       IN  /\ filePos' = r.pos
           /\ IF r.DataItem = NullItem
              THEN /\ pc' = "trim"
                   /\ UNCHANGED << DataVector, BatchLinesRead, TotalLinesRead >>
              ELSE /\ BatchLinesRead' = BatchLinesRead + 1
                   /\ TotalLinesRead' = TotalLinesRead + 1
                   /\ DataVector' = Append(DataVector, r.DataItem)
                   /\ pc' = IF BatchLinesRead' = BatchSize THEN "trim" ELSE "batch"
    /\ UNCHANGED << outcome, argv, globals, stream, BatchesRead, randomVars,
                    Printed, freed >>

\* the test made after the inner loop: did this batch read nothing
BatchEmpty_Mut(n) == FALSE
BatchEmpty(n) == n = 0

\* a batch that read nothing ends the outer loop
EndOfData ==
    /\ pc = "trim"
    /\ BatchEmpty(BatchLinesRead)
    /\ pc' = "results"
    /\ UNCHANGED << outcome, argv, globals, stream, filePos, normalVars,
                    randomVars, Printed, freed >>

\* a batch that read something: sort the vector, lower ResultCount to the
\* vector size if that is smaller, free and pop everything past
\* ResultCount, and start the next batch
SortAndTrim ==
    /\ pc = "trim"
    /\ ~BatchEmpty(BatchLinesRead)
    /\ BatchesRead' = BatchesRead + 1
    /\ \E v \in SortResults(Range(DataVector), ResultSortType) :
         /\ ResultCount' = NewResultCount(Len(v), ResultCount)
         /\ DataVector' = Trim(v, ResultCount')
         /\ freed' = freed \cup (IdsOf(v) \ IdsOf(DataVector'))
    /\ BatchLinesRead' = 0
    /\ pc' = "batch"
    /\ UNCHANGED << outcome, argv, InputFileName, BatchSize, SelectionType,
                    ResultSortType, BucketCount, stream, filePos,
                    TotalLinesRead, randomVars, Printed >>

\* after the loop: PrintVectorData reads element 0 before it looks at the
\* size, so an empty vector ends the process with std::out_of_range;
\* otherwise the vector is printed and then freed
PrintResults ==
    /\ pc = "results"
    /\ pc' = "exit"
    /\ IF DataVector = << >>
       THEN /\ outcome' = "out_of_range"
            /\ UNCHANGED << DataVector, Printed, freed >>
       ELSE /\ outcome' = "ok"
            /\ Printed' = DataVector
            /\ freed' = freed \cup IdsOf(DataVector)
            /\ DataVector' = << >>
    /\ UNCHANGED << argv, globals, stream, filePos, BatchLinesRead,
                    TotalLinesRead, BatchesRead, randomVars >>

\* ------------------------------------- random mode (GenerateAlgorithmR)
\* SampleIndex as set after the fill loop, from the reservoir size
InitialSampleIndex_Mut(rsize) == rsize
InitialSampleIndex(rsize) == rsize - 1

\* the values of ((rand() << 32) | rand()) % SampleIndex
Draws(si) == 0..(si - 1)

\* the test that selects the record for the reservoir
Selected_Mut(rv, rsize) == rv <= rsize
Selected(rv, rsize) == rv <= rsize - 1

\* one pass of the fill loop: a NULL pull (end of file or a bad line)
\* jumps to Failed, which returns false without printing or freeing
FillSlot ==
    /\ pc = "fill"
    /\ ReservoirIndex < ResultCount
    /\ LET r == GetNextDataItem(stream, filePos)
       IN  /\ filePos' = r.pos
           /\ IF r.DataItem = NullItem
              THEN /\ pc' = "exit"
                   /\ outcome' = "failed"
                   /\ UNCHANGED << Reservoir, ReservoirIndex, ReservoirSize,
                                   SampleIndex >>
              ELSE /\ Reservoir' = [Reservoir EXCEPT ![ReservoirIndex] =
                                      [DataItem |-> r.DataItem,
                                       SampleIndex |-> ReservoirIndex]]
                   /\ ReservoirIndex' = ReservoirIndex + 1
                   /\ outcome' = outcome
                   /\ IF ReservoirIndex' < ResultCount
                      THEN /\ pc' = "fill"
                           /\ UNCHANGED << ReservoirSize, SampleIndex >>
                      ELSE /\ pc' = "sample"
                           /\ ReservoirSize' = ReservoirIndex'
                           /\ SampleIndex' = InitialSampleIndex(ReservoirSize')
    /\ UNCHANGED << argv, globals, stream, normalVars, RandomValue,
                    ReplacedCount, Buckets, NotFound, Printed, freed >>

\* Reservoir[i] as the code reads it; outside the array the memory holds
\* no sample of this run
SlotAt(res, i) == IF i \in DOMAIN res THEN res[i] ELSE NullSample

\* one pass of the sampling loop on a record, with draw rv: count the
\* record, then replace Reservoir[rv], freeing what it held, or leave the
\* reservoir as it is (a rejected record is not freed)
SampleDraw(rv) ==
    /\ pc = "sample"
    /\ LET r == GetNextDataItem(stream, filePos)
       IN  /\ r.DataItem # NullItem
           /\ filePos' = r.pos
           /\ SampleIndex' = SampleIndex + 1
           /\ rv \in Draws(SampleIndex')
           /\ RandomValue' = rv
           /\ IF Selected(rv, ReservoirSize)
              THEN /\ Reservoir' = [Reservoir EXCEPT ![rv] =
                                      [DataItem |-> r.DataItem,
                                       SampleIndex |-> SampleIndex']]
                   /\ freed' = freed \cup {SlotAt(Reservoir, rv).DataItem.id}
                   /\ ReplacedCount' = ReplacedCount + 1
              ELSE UNCHANGED << Reservoir, freed, ReplacedCount >>
    /\ UNCHANGED << pc, outcome, argv, globals, stream, normalVars,
                    ReservoirIndex, ReservoirSize, Buckets, NotFound, Printed >>

SampleLine == \E rv \in 0..(MaxLen + 1) : SampleDraw(rv)

\* a NULL pull leaves the sampling loop
EndOfSampling ==
    /\ pc = "sample"
    /\ LET r == GetNextDataItem(stream, filePos)
       IN  /\ r.DataItem = NullItem
           /\ filePos' = r.pos
    /\ pc' = "summary"
    /\ UNCHANGED << outcome, argv, globals, stream, normalVars, randomVars,
                    Printed, freed >>

\* ------------------------------------------------ PrintHistogramSummary
\* the number of items read, as printed and as passed to the histogram
ItemsReadOf_Mut(si) == si
ItemsReadOf(si) == si + 1

BucketSize(ItemsRead, bc) == ItemsRead \div bc
MaxValue(bsize, i) == bsize * (i + 1)

\* the test of a SampleIndex against a bucket's MaxValue
Fits_Mut(si, bound) == si < bound
Fits(si, bound) == si <= bound

\* index of the first bucket whose MaxValue is not below si, -1 if none
FindBucket(si, bsize, bc) ==
    LET fit == {b \in 0..(bc - 1) : Fits(si, MaxValue(bsize, b))}
    IN  IF fit = {} THEN -1 ELSE CHOOSE b \in fit : \A c \in fit : b <= c

\* the bucket array after the scan of the reservoir
HistogramBuckets(res, rc, bsize, bc) ==
    [b \in 1..bc |->
        [Count    |-> Cardinality({ri \in 0..(rc - 1) :
                          FindBucket(res[ri].SampleIndex, bsize, bc) = b - 1}),
         MaxValue |-> MaxValue(bsize, b - 1)]]

\* the reservoir indices for which no bucket was found
Unassigned(res, rc, bsize, bc) ==
    {ri \in 0..(rc - 1) : FindBucket(res[ri].SampleIndex, bsize, bc) = -1}

\* after the loop: the reservoir is printed and the histogram is made
\* from SampleIndex + 1 items read.  With BucketCount = 0 the division
\* ItemsRead / BucketCount is undefined: malloc(0) may return NULL (the
\* function returns early), the division may trap, or it may yield 0.
Summary ==
    /\ pc = "summary"
    /\ pc' = "exit"
    /\ Printed' = [i \in 1..ResultCount |-> Reservoir[i - 1].DataItem]
    /\ IF BucketCount # 0
       THEN LET bsize == BucketSize(ItemsReadOf(SampleIndex), BucketCount)
            IN  /\ Buckets' = HistogramBuckets(Reservoir, ResultCount, bsize, BucketCount)
                /\ NotFound' = Unassigned(Reservoir, ResultCount, bsize, BucketCount)
                /\ outcome' = "ok"
       ELSE \E how \in {"null", "trap", "zero"} :
              /\ outcome' = IF how = "trap" THEN "sigfpe" ELSE "ok"
              /\ Buckets' = << >>
              /\ NotFound' = IF how = "zero" THEN 0..(ResultCount - 1) ELSE {}
    /\ UNCHANGED << argv, globals, stream, filePos, normalVars, Reservoir,
                    ReservoirIndex, ReservoirSize, SampleIndex, RandomValue,
                    ReplacedCount, freed >>

\* ------------------------------------------------------- specification
Next ==
    \/ ParseCommandLine
    \/ OpenInput
    \/ OpenFails
    \/ ReadLine
    \/ EndOfData
    \/ SortAndTrim
    \/ PrintResults
    \/ FillSlot
    \/ SampleLine
    \/ EndOfSampling
    \/ Summary

Spec == Init /\ [][Next]_vars

\* the same program on the smaller inputs
LiveParseCommandLine == ParseCommandLineFrom(LiveArgvSet)
LiveOpenInput == OpenInputFrom(LiveStreams)

LiveNext ==
    \/ LiveParseCommandLine
    \/ LiveOpenInput
    \/ OpenFails
    \/ ReadLine
    \/ EndOfData
    \/ SortAndTrim
    \/ PrintResults
    \/ FillSlot
    \/ SampleLine
    \/ EndOfSampling
    \/ Summary

\* the process is one sequential thread: a step that can be taken is taken
FairSpec == Init /\ [][LiveNext]_vars /\ WF_vars(LiveNext)

\* =============================================================== claims
\* the result count given on the command line (10 when -n is absent)
ConfiguredK == ParseArgs(argv).ResultCount

\* the input file was opened and every line of it is a well-formed record
Opened     == pc \notin {"main", "open"} /\ outcome \notin {"usage", "noinput", "openfail"}
WellFormed == \A i \in DOMAIN stream : LineOK(stream[i])
NormalRun  == Opened /\ SelectionType = SELECTION_TYPE_NORMAL
RandomRun  == Opened /\ SelectionType = SELECTION_TYPE_RANDOM

ScoresOf(v)  == [i \in DOMAIN v |-> v[i].LongValue]
StreamScores == [i \in DOMAIN stream |-> stream[i].val]

\* the scores of q, best first under the sort type
RECURSIVE BestFirst(_, _)
BestFirst(q, sortType) ==
    IF q = << >> THEN << >>
    ELSE LET i == CHOOSE i \in DOMAIN q : \A j \in DOMAIN q :
                     IF sortType = SORT_TYPE_DESCENDING
                     THEN q[i] >= q[j] ELSE q[i] <= q[j]
         IN  << q[i] >> \o BestFirst(SubSeq(q, 1, i - 1) \o SubSeq(q, i + 1, Len(q)),
                                     sortType)

\* the k best scores of the whole stream, best first
TopScores(k) == SubSeq(BestFirst(StreamScores, ResultSortType), 1,
                       Min(k, Len(stream)))

\* C1: normal mode, well-formed stream of N >= K records, any batch size,
\* either order: when the batch loop has ended the candidate vector holds
\* exactly K records, whose scores are the K best scores of the whole
\* stream in comparator order.
C1_TopKOfStream ==
    (pc = "results" /\ NormalRun /\ WellFormed /\ Len(stream) >= ConfiguredK)
        => /\ Len(DataVector) = ConfiguredK
           /\ ScoresOf(DataVector) = TopScores(ConfiguredK)

\* what one batch holding the whole file leaves in the vector: the sorted
\* file, trimmed to the result count lowered to the file length
SingleBatchScores ==
    LET items == {GetNextDataItem(stream, p).DataItem : p \in 0..(Len(stream) - 1)}
        v     == CHOOSE w \in SortResults(items, ResultSortType) : TRUE
    IN  ScoresOf(Trim(v, NewResultCount(Len(v), ConfiguredK)))

\* C2: normal mode, well-formed stream of N >= 1 records: whatever the
\* batch size, the final vector carries the same scores as a run with one
\* batch of size N.
C2_BatchIndependent ==
    (pc = "results" /\ NormalRun /\ WellFormed /\ Len(stream) >= 1)
        => ScoresOf(DataVector) = SingleBatchScores

\* C8: normal mode, well-formed stream of N < K records (N = 0 included),
\* any batch size: the run ends without error and the printed result has
\* exactly N records, one for every input record.
C8_ShortStreamKeepsAll ==
    (pc = "exit" /\ NormalRun /\ WellFormed /\ Len(stream) < ConfiguredK)
        => /\ outcome = "ok"
           /\ Len(Printed) = Len(stream)
           /\ IdsOf(Printed) = 0..(Len(stream) - 1)

\* the slots of the reservoir that hold a sample
Occupied == {i \in DOMAIN Reservoir : Reservoir[i] # NullSample}

\* C3: random mode, well-formed stream of N < K records: the run ends
\* without error, the reservoir holds exactly the N records read and no
\* sampling step was made.
C3_ShortStreamSample ==
    (pc = "exit" /\ RandomRun /\ WellFormed /\ Len(stream) < ConfiguredK)
        => /\ outcome = "ok"
           /\ {Reservoir[i].DataItem.id : i \in Occupied} = 0..(Len(stream) - 1)
           /\ RandomValue = -1
           /\ ReplacedCount = 0

\* C4: random mode, reservoir full, next record at 0-based arrival index
\* i = SampleIndex + 1 >= K: each of the i + 1 draws 0..i is possible for
\* it, and no other draw is.
C4_DrawRange ==
    (pc = "sample" /\ GetNextDataItem(stream, filePos).DataItem # NullItem)
        => \A rv \in 0..(MaxLen + 1) :
              (ENABLED SampleDraw(rv)) <=> (rv \in 0..(SampleIndex + 1))

RECURSIVE SumCounts(_)
SumCounts(b) == IF b = << >> THEN 0 ELSE b[1].Count + SumCounts(Tail(b))

\* the histogram was produced
Reported == pc = "exit" /\ RandomRun /\ Printed # << >> /\ outcome = "ok"

\* C5: histogram of a full reservoir with a positive bucket count: the
\* bucket counts sum to exactly K.
C5_CountsSumToK ==
    (Reported /\ BucketCount >= 1) => SumCounts(Buckets) = ResultCount

\* option c is on the command line with a value that converts to <= 0
NonPositiveOption(c) ==
    \E k \in 1..(Len(argv) - 1) : argv[k] = Flag(c) /\ atol(argv[k + 1]) <= 0

\* nothing was opened, read, selected or printed
Untouched ==
    /\ stream = << >> /\ filePos = 0
    /\ DataVector = << >> /\ Reservoir = << >>
    /\ TotalLinesRead = 0 /\ ReservoirIndex = 0
    /\ Printed = << >> /\ Buckets = << >>

\* C6: a -n or -b value <= 0 on the command line ends the run with the
\* usage outcome, with no file opened, no record read and no selection
\* state created.
C6_RejectsBadCounts ==
    (pc # "main" /\ (NonPositiveOption("n") \/ NonPositiveOption("b")))
        => (pc = "exit" /\ outcome = "usage" /\ Untouched)

C6_Witness ==
    /\ pc = "exit" /\ outcome = "usage"
    /\ NonPositiveOption("b") /\ ~NonPositiveOption("n")
    /\ ResultCount = MaxK

\* C7: a -u value <= 0 (0 included) on the command line ends the run with
\* the usage outcome before the file is opened.
C7_RejectsBadBucketCount ==
    (pc # "main" /\ NonPositiveOption("u"))
        => (pc = "exit" /\ outcome = "usage" /\ Untouched)

\* the K-th record has been read into the reservoir
ReservoirFull == RandomRun /\ ReservoirIndex = ResultCount

\* C9: random mode: once the K-th record has been read the reservoir has
\* exactly K occupied slots, at indices 0..K-1, until the run ends; a
\* replacement writes one slot with index in 0..K-1 and leaves the set of
\* occupied slots as it was.
C9_ReservoirKeepsK ==
    /\ [](ReservoirFull => (Occupied = 0..(ResultCount - 1)
                            /\ Cardinality(Occupied) = ResultCount))
    /\ [][ReplacedCount' # ReplacedCount =>
             /\ RandomValue' \in 0..(ResultCount - 1)
             /\ Occupied' = Occupied
             /\ \A i \in DOMAIN Reservoir :
                   i # RandomValue' => Reservoir'[i] = Reservoir[i]]_vars

C9_Witness ==
    /\ ReservoirFull /\ pc = "exit" /\ ReplacedCount >= 2
    /\ RandomValue = ResultCount - 1 /\ ResultCount >= 2

\* C10: random mode: every occupied slot carries as SampleIndex the
\* 0-based position at which its record was read, and no two occupied
\* slots carry the same SampleIndex.
C10_ArrivalIndex ==
    /\ \A i \in Occupied : Reservoir[i].SampleIndex = Reservoir[i].DataItem.id
    /\ \A i, j \in Occupied :
          i # j => Reservoir[i].SampleIndex # Reservoir[j].SampleIndex

C10_Witness ==
    /\ ReservoirFull /\ ReplacedCount >= 1 /\ ResultCount >= 2
    /\ \E i \in Occupied : Reservoir[i].SampleIndex > ResultCount

\* a trim has just been made: the next batch is about to start
AfterTrim == NormalRun /\ pc = "batch" /\ BatchLinesRead = 0 /\ BatchesRead >= 1

\* C11: normal mode: the candidate vector never holds more than
\* K + BatchSize records, and never more than K right after a trim,
\* whatever the length of the stream.
C11_VectorBounded ==
    /\ NormalRun => Len(DataVector) <= ConfiguredK + BatchSize
    /\ AfterTrim => Len(DataVector) <= ConfiguredK

C11_Witness ==
    /\ NormalRun /\ pc = "trim" /\ BatchesRead >= 1
    /\ Len(DataVector) = ConfiguredK + BatchSize
    /\ filePos < Len(stream)

\* the number of records the source has handed out so far
RecordsRead == Cardinality({i \in 1..filePos : LineOK(stream[i])})

\* C12: random mode, stream of N >= K records: the item count that is
\* reported and passed to the histogram is the number of records read,
\* the first K included, retained or not; it is N when the whole stream
\* is well formed.
C12_TotalRead ==
    (ReservoirFull /\ pc \in {"summary", "exit"})
        => /\ ItemsReadOf(SampleIndex) = RecordsRead
           /\ WellFormed => ItemsReadOf(SampleIndex) = Len(stream)

C12_Witness ==
    /\ ReservoirFull /\ pc = "exit" /\ WellFormed
    /\ Len(stream) >= ResultCount + 2
    /\ ReplacedCount >= 1 /\ ReplacedCount < Len(stream) - ResultCount

\* PrintHistogramSummary printed its report.  With BucketCount = 0 it does
\* so only when the division yielded 0, and then no slot finds a bucket.
HistogramPrinted ==
    /\ pc = "exit" /\ ReservoirFull /\ outcome = "ok"
    /\ (BucketCount # 0 \/ NotFound # {})

\* the buckets whose upper bound is not below the SampleIndex of slot ri
Fitting(ri) == {b \in DOMAIN Buckets : Buckets[b].MaxValue >= Reservoir[ri].SampleIndex}

\* the bucket slot ri belongs to: the first of the fitting buckets with
\* the smallest upper bound, 0 when no bucket fits
BucketOf(ri) ==
    IF Fitting(ri) = {} THEN 0
    ELSE CHOOSE b \in Fitting(ri) :
            \A c \in Fitting(ri) :
               \/ Buckets[b].MaxValue < Buckets[c].MaxValue
               \/ (Buckets[b].MaxValue = Buckets[c].MaxValue /\ b <= c)

\* C13: in the printed histogram each retained sample is counted in the
\* bucket with the smallest upper bound >= its SampleIndex and in no
\* other, a sample that fits no bucket is reported as not found, and the
\* counts plus the not-found reports total K.
C13_BucketAssignment ==
    HistogramPrinted =>
        /\ \A b \in DOMAIN Buckets :
              Buckets[b].Count = Cardinality({ri \in Occupied : BucketOf(ri) = b})
        /\ NotFound = {ri \in Occupied : BucketOf(ri) = 0}
        /\ SumCounts(Buckets) + Cardinality(NotFound) = ResultCount

C13_Witness ==
    /\ HistogramPrinted /\ BucketCount >= 2 /\ ResultCount >= 2
    /\ NotFound # {} /\ SumCounts(Buckets) >= 1

\* C14: in the printed histogram, with bucketWidth = totalRead \div
\* bucketCount, the count of every bucket, the first included, is the
\* number of retained samples whose SampleIndex lies in
\* (upperBound - bucketWidth, upperBound].
C14_BucketIntervals ==
    (HistogramPrinted /\ BucketCount >= 1) =>
        LET width == ItemsReadOf(SampleIndex) \div BucketCount
        IN  \A b \in DOMAIN Buckets :
               Buckets[b].Count =
                  Cardinality({ri \in Occupied :
                      /\ Reservoir[ri].SampleIndex > Buckets[b].MaxValue - width
                      /\ Reservoir[ri].SampleIndex <= Buckets[b].MaxValue})

\* the positions of the records read so far, and the slots holding one
ReadIds    == {p \in 0..(filePos - 1) : LineOK(stream[p + 1])}
Holders(p) == {i \in Occupied : Reservoir[i].DataItem.id = p}

\* C15: random mode: every record read is held by exactly one reservoir
\* slot or has been freed, never both and never neither (so a rejected
\* record is freed when it is rejected and a displaced record when it is
\* displaced); after a failed run every record read has been freed.
C15_Ownership ==
    RandomRun =>
        /\ outcome # "failed" =>
              \A p \in ReadIds :
                 \/ (Cardinality(Holders(p)) = 1 /\ p \notin freed)
                 \/ (Holders(p) = {} /\ p \in freed)
        /\ outcome = "failed" => ReadIds \subseteq freed

\* C16: normal mode: ResultCount never increases during a run; a trim of
\* a vector with fewer elements than ResultCount lowers it to the vector
\* size (so it stays at or below that size afterwards), and right after
\* every trim the vector size equals ResultCount.
C16_Ratchet ==
    /\ [][NormalRun => ResultCount' <= ResultCount]_vars
    /\ [][(NormalRun /\ pc = "trim" /\ pc' = "batch") =>
             /\ ResultCount' = Min(ResultCount, Len(DataVector))
             /\ Len(DataVector') = ResultCount']_vars

C16_Witness ==
    /\ NormalRun /\ pc = "trim" /\ BatchesRead >= 2
    /\ ResultCount < ConfiguredK
    /\ Len(DataVector) > ResultCount

\* the next pull returns no record
NextPullNull == GetNextDataItem(stream, filePos).DataItem = NullItem

\* C17: for every finite stream the run terminates.  Normal mode leaves
\* its loop at the first batch that read no record, without sorting,
\* trimming or freeing, and never pulls again.  Random mode leaves its
\* sampling loop at the first pull that returns no record; the histogram
\* step then runs once, on the reservoir as the loop left it, and ends
\* the run.
C17_Terminates ==
    /\ <>(pc = "exit")
    /\ [][(pc = "trim" /\ BatchLinesRead = 0) =>
             /\ pc' = "results"
             /\ UNCHANGED << DataVector, ResultCount, BatchesRead, freed, filePos >>]_vars
    /\ [][pc = "results" => (pc' = "exit" /\ filePos' = filePos)]_vars
    /\ [][(pc = "sample" /\ NextPullNull) =>
             (pc' = "summary" /\ UNCHANGED << Reservoir, SampleIndex >>)]_vars
    /\ [][(pc = "sample" /\ ~NextPullNull) => pc' = "sample"]_vars
    /\ [][pc = "summary" =>
             (pc' = "exit" /\ UNCHANGED << Reservoir, SampleIndex, filePos >>)]_vars
    /\ [][pc # "exit"]_vars

C17_Witness ==
    /\ pc = "exit" /\ HistogramPrinted
    /\ ~WellFormed /\ ReplacedCount >= 1

\* the scores of the records ingested so far, in arrival order
IngestedScores ==
    LET good == SelectSeq(SubSeq(stream, 1, filePos), LineOK)
    IN  [i \in DOMAIN good |-> good[i].val]

\* score a is strictly better than score b under the sort type in force
BetterScore(a, b) ==
    IF ResultSortType = SORT_TYPE_DESCENDING THEN a > b ELSE a < b

\* C18: normal mode, right after every trim: the vector is in comparator
\* order, its scores are exactly the best R scores of all records
\* ingested so far, R being the current ResultCount, and no record freed
\* so far has a better score than a record kept.
C18_BestSoFar ==
    AfterTrim =>
        /\ ScoresOf(DataVector) =
              SubSeq(BestFirst(IngestedScores, ResultSortType), 1, ResultCount)
        /\ \A i, j \in DOMAIN DataVector :
              i < j => ~BetterScore(DataVector[j].LongValue, DataVector[i].LongValue)
        /\ \A p \in freed : \A i \in DOMAIN DataVector :
              ~BetterScore(stream[p + 1].val, DataVector[i].LongValue)

C18_Witness ==
    /\ AfterTrim /\ BatchesRead >= 2 /\ freed # {}
    /\ Len(DataVector) >= 2
    /\ DataVector[1].LongValue # DataVector[2].LongValue

\* the line the next pull will read is malformed
MalformedNext == filePos < Len(stream) /\ stream[filePos + 1] = BadLine

\* the positions of the well-formed lines consumed so far
GoodIds == {p \in 0..(filePos - 1) : stream[p + 1] # BadLine}

\* C19: normal mode: a pull that meets a malformed line consumes it, adds
\* nothing and closes the batch; the run goes on with the next batch iff
\* the closed batch holds at least one record, and otherwise ends with the
\* rest of the file unread.  Every well-formed line consumed was ingested,
\* so a malformed line inside a batch is only skipped.
C19_MalformedLine ==
    /\ [][(NormalRun /\ pc = "batch" /\ MalformedNext) =>
             /\ pc' = "trim"
             /\ filePos' = filePos + 1
             /\ UNCHANGED << DataVector, BatchLinesRead, TotalLinesRead >>]_vars
    /\ [][(NormalRun /\ pc = "trim") =>
             /\ (BatchLinesRead >= 1) => pc' = "batch"
             /\ (BatchLinesRead = 0) => pc' = "results"
             /\ filePos' = filePos]_vars
    /\ [](NormalRun => IdsOf(DataVector) \cup freed = GoodIds)
    /\ []((NormalRun /\ pc \in {"results", "exit"} /\ filePos < Len(stream))
             => (filePos >= 1 /\ stream[filePos] = BadLine))

C19_Witness ==
    /\ NormalRun /\ pc = "results"
    /\ \E i \in 2..filePos : /\ stream[i] = BadLine
                             /\ \E p \in GoodIds : p >= i /\ p \in IdsOf(DataVector)

====
